---- MODULE Spec2Model ----
(***************************************************************************)
(* Model of the computation + validation layer of the statistics form:     *)
(* DataValidator (src/src/validator.py) and StatisticalAnalyzer            *)
(* (src/src/analyzer.py).  Every operation is a pure, single-shot call: a  *)
(* caller that is idle invokes one operation on inputs drawn from a small  *)
(* set, the operation's result is recorded, and the call returns.  The     *)
(* form's click handler (src/src/ui_manager.py) is the one caller with     *)
(* state of its own: the display, which lasts from click to click.         *)
(***************************************************************************)
EXTENDS Integers, Sequences, FiniteSets, TLC

\* ui: the display (error container, results area and their texts);
\* pc: where handle_test_click stands, "idle" when no click is being handled
VARIABLES op, args, ret, ui, pc

vars == <<op, args, ret, ui, pc>>

\* Python's None
None == "None"

NoArgs == [none |-> TRUE]

\* the text "" of a ft.Text, and a message named by its kind
EmptyText == [kind |-> "empty", detail |-> None]

\* result_text.spans = None
NoSpans == <<>>

\* the display as __init__ and create_layout build it
InitialDisplay ==
    [error_text |-> EmptyText, error_visible |-> FALSE,
     result_spans |-> NoSpans, result_value |-> EmptyText,
     results_visible |-> FALSE]

Init ==
    /\ op = "idle"
    /\ args = NoArgs
    /\ ret = NoArgs
    /\ ui = InitialDisplay
    /\ pc = "idle"

\* The call returns; nothing of it is kept but what the display shows.
Return ==
    /\ op # "idle"
    /\ pc # "cleared"
    /\ op' = "idle"
    /\ args' = NoArgs
    /\ ret' = NoArgs
    /\ pc' = "idle"
    /\ UNCHANGED ui

----------------------------------------------------------------------------
(* Text: a Python str is a sequence of one-character strings.              *)

MaxTextLen == 5

Whitespace == {" ", "\n"}
Digits == {"1", "2"}
\* "a" stands for any character that cannot occur in a number.
TextAlphabet == {"1", "2", ".", "-", " ", "\n", "a"}

SeqsUpTo(S, n) == UNION {[1..k -> S] : k \in 0..n}

Texts == SeqsUpTo(TextAlphabet, MaxTextLen)

\* str.isspace(): at least one character and all of them whitespace
IsSpace(text) == Len(text) > 0 /\ \A i \in 1..Len(text) : text[i] \in Whitespace

RECURSIVE SplitFrom(_, _, _, _)
SplitFrom(text, i, cur, acc) ==
    IF i > Len(text)
    THEN IF cur = <<>> THEN acc ELSE Append(acc, cur)
    ELSE IF text[i] \in Whitespace
         THEN SplitFrom(text, i + 1, <<>>, IF cur = <<>> THEN acc ELSE Append(acc, cur))
         ELSE SplitFrom(text, i + 1, Append(cur, text[i]), acc)

\* a split that drops a token equal to the one before it
RECURSIVE DropRepeats(_)
DropRepeats(s) ==
    IF Len(s) <= 1 THEN s
    ELSE IF s[1] = s[2] THEN DropRepeats(Tail(s))
         ELSE <<s[1]>> \o DropRepeats(Tail(s))

SplitDedup(text) == DropRepeats(SplitFrom(text, 1, <<>>, <<>>))

\* str.split(): the maximal runs of non-whitespace characters, left to right
Split(text) == SplitFrom(text, 1, <<>>, <<>>)

DigitVal(c) == IF c = "1" THEN 1 ELSE 2

StripSign(tok) ==
    IF Len(tok) > 0 /\ tok[1] \in {"-", "+"} THEN Tail(tok) ELSE tok

\* float(tok) does not raise ValueError: an optional sign, then digits with
\* at most one decimal point and at least one digit.
FloatOk(tok) ==
    LET b == StripSign(tok) IN
    /\ \A i \in 1..Len(b) : b[i] \in Digits \cup {"."}
    /\ Cardinality({i \in 1..Len(b) : b[i] = "."}) <= 1
    /\ \E i \in 1..Len(b) : b[i] \in Digits

RECURSIVE Mantissa(_, _)
Mantissa(b, acc) ==
    IF b = <<>> THEN acc
    ELSE IF Head(b) = "." THEN Mantissa(Tail(b), acc)
         ELSE Mantissa(Tail(b), 10 * acc + DigitVal(Head(b)))

\* float(tok) for a valid token: the decimal number m * 10^(-e)
FloatVal(tok) ==
    LET b == StripSign(tok)
        dot == {i \in 1..Len(b) : b[i] = "."}
        frac == IF dot = {} THEN 0 ELSE Len(b) - (CHOOSE i \in dot : TRUE)
        sign == IF Len(tok) > 0 /\ tok[1] = "-" THEN -1 ELSE 1
    IN [m |-> sign * Mantissa(b, 0), e |-> frac]

\* an emptiness check that forgets text.isspace()
ValidateInputNoIsSpace(text) ==
    IF Len(text) = 0
    THEN [ok |-> FALSE, numbers |-> None, error |-> "EmptyInput"]
    ELSE LET values == Split(text) IN
         IF \E i \in 1..Len(values) : ~FloatOk(values[i])
         THEN [ok |-> FALSE, numbers |-> None, error |-> "ParseError"]
         ELSE LET numbers == [i \in 1..Len(values) |-> FloatVal(values[i])] IN
              IF numbers = <<>>
              THEN [ok |-> FALSE, numbers |-> None, error |-> "NoValidNumbers"]
              ELSE [ok |-> TRUE, numbers |-> numbers, error |-> None]

\* DataValidator.validate_input; the messages are named by their error kind
validate_input(text) ==
    IF Len(text) = 0 \/ IsSpace(text)
    THEN [ok |-> FALSE, numbers |-> None, error |-> "EmptyInput"]
    ELSE LET values == Split(text) IN
         IF \E i \in 1..Len(values) : ~FloatOk(values[i])
         THEN [ok |-> FALSE, numbers |-> None, error |-> "ParseError"]
         ELSE LET numbers == [i \in 1..Len(values) |-> FloatVal(values[i])] IN
              IF numbers = <<>>
              THEN [ok |-> FALSE, numbers |-> None, error |-> "NoValidNumbers"]
              ELSE [ok |-> TRUE, numbers |-> numbers, error |-> None]

ValidateInput ==
    /\ op = "idle"
    /\ UNCHANGED <<ui, pc>>
    /\ \E text \in Texts :
        /\ op' = "validate_input"
        /\ args' = [text |-> text]
        /\ ret' = validate_input(text)

NextParse == ValidateInput \/ Return

SpecParse == Init /\ [][NextParse]_vars

----------------------------------------------------------------------------
(* Claims about validate_input                                             *)

\* the positions where a token starts and where it ends
TokenStarts(text) ==
    {i \in 1..Len(text) : text[i] \notin Whitespace
                          /\ (i = 1 \/ text[i - 1] \in Whitespace)}

TokenEnd(text, s) ==
    CHOOSE j \in s..Len(text) :
        /\ \A k \in s..j : text[k] \notin Whitespace
        /\ (j = Len(text) \/ text[j + 1] \in Whitespace)

NthStart(text, n) ==
    CHOOSE s \in TokenStarts(text) :
        Cardinality({t \in TokenStarts(text) : t < s}) = n - 1

NthToken(text, n) ==
    LET s == NthStart(text, n) IN SubSeq(text, s, TokenEnd(text, s))

AllTokensNumeric(text) ==
    \A n \in 1..Cardinality(TokenStarts(text)) : FloatOk(NthToken(text, n))

Called(name) == op = name

\* C4: for a text of one or more valid numeric tokens separated by
\* whitespace/newlines, validate_input succeeds and returns as many numbers
\* as there are tokens, the i-th number being the value of the i-th token
\* (order kept, duplicates kept, nothing sorted).
C4_ParseKeepsCountAndOrder ==
    (Called("validate_input")
        /\ TokenStarts(args.text) # {} /\ AllTokensNumeric(args.text))
    => /\ ret.ok
       /\ ret.error = None
       /\ Len(ret.numbers) = Cardinality(TokenStarts(args.text))
       /\ \A n \in 1..Len(ret.numbers) :
            ret.numbers[n] = FloatVal(NthToken(args.text, n))

\* a parsed sample of three numbers, out of order and with a duplicate
C4_Witness ==
    /\ Called("validate_input")
    /\ ret.ok
    /\ Len(ret.numbers) = 3
    /\ ret.numbers[1] = ret.numbers[3]
    /\ ret.numbers[2].m < ret.numbers[1].m

\* C5: validate_input fails with EmptyInput exactly when the text is empty
\* or all whitespace, with ParseError exactly when there is a token and some
\* token is not a number; both failures return no sample, and neither
\* overlaps with success.
C5_ParseErrors ==
    Called("validate_input") =>
        LET blank == \A i \in 1..Len(args.text) : args.text[i] \in Whitespace
            bad == ~blank /\ ~AllTokensNumeric(args.text)
        IN /\ (~ret.ok /\ ret.error = "EmptyInput") <=> blank
           /\ (~ret.ok /\ ret.error = "ParseError") <=> bad
           /\ ret.ok <=> (~blank /\ ~bad)
           /\ ~ret.ok => ret.numbers = None
           /\ ret.ok => ret.error = None

\* an all-whitespace text of two characters was rejected as empty
C5_WitnessEmpty ==
    /\ Called("validate_input")
    /\ Len(args.text) = 2 /\ IsSpace(args.text)
    /\ ret.error = "EmptyInput"

----------------------------------------------------------------------------
(* DataValidator.check_data_requirements                                   *)

MaxDataLen == 4

DataValues == {1, 2}

TestTypes == {"qtest", "confidence_interval", "error_propagation", "ttest", "other"}

\* a size check that also rejects a sample of exactly three values
CheckDataRequirementsOffByOne(data, test_type) ==
    IF test_type = "qtest"
    THEN IF Len(data) <= 3
         THEN [ok |-> FALSE, error |-> "InsufficientSampleSize"]
         ELSE [ok |-> TRUE, error |-> None]
    ELSE IF test_type = "confidence_interval"
    THEN IF Len(data) < 1
         THEN [ok |-> FALSE, error |-> "InsufficientSampleSize"]
         ELSE [ok |-> TRUE, error |-> None]
    ELSE IF test_type = "error_propagation"
    THEN [ok |-> TRUE, error |-> None]
    ELSE [ok |-> FALSE, error |-> "InvalidOperation"]

check_data_requirements(data, test_type) ==
    IF test_type = "qtest"
    THEN IF Len(data) < 3
         THEN [ok |-> FALSE, error |-> "InsufficientSampleSize"]
         ELSE [ok |-> TRUE, error |-> None]
    ELSE IF test_type = "confidence_interval"
    THEN IF Len(data) < 1
         THEN [ok |-> FALSE, error |-> "InsufficientSampleSize"]
         ELSE [ok |-> TRUE, error |-> None]
    ELSE IF test_type = "error_propagation"
    THEN [ok |-> TRUE, error |-> None]
    ELSE [ok |-> FALSE, error |-> "InvalidOperation"]

CheckDataRequirements ==
    /\ op = "idle"
    /\ UNCHANGED <<ui, pc>>
    /\ \E data \in SeqsUpTo(DataValues, MaxDataLen), test_type \in TestTypes :
        /\ op' = "check_data_requirements"
        /\ args' = [data |-> data, test_type |-> test_type]
        /\ ret' = check_data_requirements(data, test_type)

NextReq == CheckDataRequirements \/ Return

SpecReq == Init /\ [][NextReq]_vars

\* C6: check_data_requirements accepts a sample for the outlier test iff it
\* has at least 3 values, for the confidence interval iff it has at least 1,
\* for error propagation whatever its length (0 included), and fails with
\* InvalidOperation for every other operation kind whatever the sample.
C6_SampleRequirements ==
    Called("check_data_requirements") =>
        LET n == Len(args.data)
            kind == args.test_type
        IN /\ kind = "qtest" => (ret.ok <=> n >= 3)
           /\ kind = "confidence_interval" => (ret.ok <=> n >= 1)
           /\ kind = "error_propagation" => ret.ok
           /\ kind \notin {"qtest", "confidence_interval", "error_propagation"}
                => (~ret.ok /\ ret.error = "InvalidOperation")
           /\ (kind \in {"qtest", "confidence_interval"} /\ ~ret.ok)
                => ret.error = "InsufficientSampleSize"

\* a sample of exactly three values was accepted for the outlier test
C6_Witness ==
    /\ Called("check_data_requirements")
    /\ args.test_type = "qtest"
    /\ Len(args.data) = 3
    /\ ret.ok

----------------------------------------------------------------------------
(* DataValidator.validate_error_propagation_inputs                         *)

MaxVars == 2
MaxExprLen == 3

IdentStart == {"x", "y", "z", "_"}
IdentChar == IdentStart \cup {"1", "2"}

\* variable names as the caller may pass them: an identifier, a name that
\* starts with a digit, and an identifier followed by a newline
VarNames == {<<"x">>, <<"2", "x">>, <<"x", "\n">>}
VarValues == {1}
\* 0 is the boundary of the check "error <= 0"
VarErrors == {0, 1}
ExprAlphabet == {"x", "y", "z", "(", ")", "2"}

\* [a-zA-Z_][a-zA-Z0-9_]* over the whole of s
IsIdentifier(s) ==
    /\ Len(s) >= 1
    /\ s[1] \in IdentStart
    /\ \A i \in 2..Len(s) : s[i] \in IdentChar

\* re.compile(r'^[a-zA-Z_][a-zA-Z0-9_]*$').match(var): in Python "$" matches
\* at the end of the string and also just before a newline that ends it
PatternMatch(var) ==
    \/ IsIdentifier(var)
    \/ /\ Len(var) >= 2
       /\ var[Len(var)] = "\n"
       /\ IsIdentifier(SubSeq(var, 1, Len(var) - 1))

\* the end of the greedy match of [a-zA-Z0-9_]* that starts at j
RECURSIVE MatchEnd(_, _)
MatchEnd(s, j) ==
    IF j < Len(s) /\ s[j + 1] \in IdentChar THEN MatchEnd(s, j + 1) ELSE j

RECURSIVE FindAllFrom(_, _, _)
FindAllFrom(s, i, acc) ==
    IF i > Len(s) THEN acc
    ELSE IF s[i] \in IdentStart
         THEN LET j == MatchEnd(s, i)
              IN FindAllFrom(s, j + 1, acc \cup {SubSeq(s, i, j)})
         ELSE FindAllFrom(s, i + 1, acc)

\* a scan that stops after the first identifier it finds
FindFirstOnly(s) ==
    LET starts == {i \in 1..Len(s) : s[i] \in IdentStart} IN
    IF starts = {} THEN {}
    ELSE LET i == CHOOSE k \in starts : \A m \in starts : k <= m
         IN {SubSeq(s, i, MatchEnd(s, i))}

\* set(re.findall(r'[a-zA-Z_][a-zA-Z0-9_]*', function_str))
FindAll(s) == FindAllFrom(s, 1, {})

Count(s, c) == Cardinality({i \in 1..Len(s) : s[i] = c})

Range(s) == {s[i] : i \in 1..Len(s)}

Fail(kind, detail) == [ok |-> FALSE, error |-> kind, detail |-> detail]

validate_error_propagation_inputs(variables, values, errors, function_str) ==
    IF variables = <<>> \/ values = <<>> \/ errors = <<>> \/ function_str = <<>>
    THEN Fail("MissingField", None)
    ELSE IF ~(Len(variables) = Len(values) /\ Len(values) = Len(errors))
    THEN Fail("LengthMismatch", None)
    ELSE IF \E i \in 1..Len(variables) : ~PatternMatch(variables[i])
    THEN LET first == CHOOSE i \in 1..Len(variables) :
                        /\ ~PatternMatch(variables[i])
                        /\ \A k \in 1..(i - 1) : PatternMatch(variables[k])
         IN Fail("InvalidVariableName", variables[first])
    ELSE IF \E i \in 1..Len(errors) : errors[i] <= 0
    THEN Fail("NonPositiveUncertainty", None)
    ELSE LET function_vars == FindAll(function_str)
             undefined_vars == function_vars \ Range(variables)
         IN IF undefined_vars # {}
            THEN Fail("UndefinedVariable", undefined_vars)
            ELSE IF Count(function_str, "(") # Count(function_str, ")")
            THEN Fail("UnbalancedParentheses", None)
            ELSE [ok |-> TRUE, error |-> None, detail |-> None]

ValidateErrorPropagationInputs ==
    /\ op = "idle"
    /\ UNCHANGED <<ui, pc>>
    /\ \E variables \in SeqsUpTo(VarNames, MaxVars),
          values \in SeqsUpTo(VarValues, MaxVars),
          errors \in SeqsUpTo(VarErrors, MaxVars),
          function_str \in SeqsUpTo(ExprAlphabet, MaxExprLen) :
        /\ op' = "validate_error_propagation_inputs"
        /\ args' = [variables |-> variables, values |-> values,
                    errors |-> errors, function_str |-> function_str]
        /\ ret' = validate_error_propagation_inputs(variables, values, errors,
                                                    function_str)

NextBinding == ValidateErrorPropagationInputs \/ Return

SpecBinding == Init /\ [][NextBinding]_vars

----------------------------------------------------------------------------
(* Claims about validate_error_propagation_inputs                          *)

\* the identifier tokens of an expression text, stated over its maximal runs
\* of identifier characters: the token of a run starts at the run's first
\* letter or underscore and ends where the run ends
RunStarts(s) ==
    {a \in 1..Len(s) : s[a] \in IdentChar /\ (a = 1 \/ s[a - 1] \notin IdentChar)}

RunEnd(s, a) ==
    CHOOSE b \in a..Len(s) :
        /\ \A k \in a..b : s[k] \in IdentChar
        /\ (b = Len(s) \/ s[b + 1] \notin IdentChar)

IdentifierTokens(s) ==
    {SubSeq(s, p, RunEnd(s, a)) :
        <<a, p>> \in {<<a, p>> \in RunStarts(s) \X (1..Len(s)) :
                        /\ a <= p /\ p <= RunEnd(s, a)
                        /\ s[p] \in IdentStart
                        /\ \A k \in a..(p - 1) : s[k] \notin IdentStart}}

\* the six checks, each stated on the inputs alone, as the spec words them
MissingField(a) ==
    a.variables = <<>> \/ a.values = <<>> \/ a.errors = <<>> \/ a.function_str = <<>>

LengthMismatch(a) ==
    \/ Len(a.variables) # Len(a.values)
    \/ Len(a.values) # Len(a.errors)

\* some name is not "letter-or-underscore followed by letters/digits/underscores"
InvalidVariableName(a) == \E i \in 1..Len(a.variables) : ~IsIdentifier(a.variables[i])

\* the same check as Python's "$" applies it: one trailing newline is let through
InvalidVariableNameAsMatched(a) ==
    \E i \in 1..Len(a.variables) :
        LET v == a.variables[i]
            w == IF Len(v) >= 2 /\ v[Len(v)] = "\n" THEN SubSeq(v, 1, Len(v) - 1) ELSE v
        IN ~IsIdentifier(w)

NonPositiveUncertainty(a) == \E i \in 1..Len(a.errors) : a.errors[i] <= 0

UndefinedVariable(a) ==
    \E t \in IdentifierTokens(a.function_str) :
        \A i \in 1..Len(a.variables) : a.variables[i] # t

UnbalancedParentheses(a) ==
    Count(a.function_str, "(") # Count(a.function_str, ")")

FirstViolated(c1, c2, c3, c4, c5, c6) ==
    IF c1 THEN "MissingField"
    ELSE IF c2 THEN "LengthMismatch"
    ELSE IF c3 THEN "InvalidVariableName"
    ELSE IF c4 THEN "NonPositiveUncertainty"
    ELSE IF c5 THEN "UndefinedVariable"
    ELSE IF c6 THEN "UnbalancedParentheses"
    ELSE None

\* C1: validate_error_propagation_inputs reports the first failing check in
\* the order MissingField, LengthMismatch, InvalidVariableName,
\* NonPositiveUncertainty, UndefinedVariable, UnbalancedParentheses, and the
\* result is ok only when no check is violated.
C1_FirstFailingCheck ==
    Called("validate_error_propagation_inputs") =>
        LET first == FirstViolated(MissingField(args), LengthMismatch(args),
                                   InvalidVariableName(args),
                                   NonPositiveUncertainty(args),
                                   UndefinedVariable(args),
                                   UnbalancedParentheses(args))
        IN /\ ret.error = first
           /\ ret.ok <=> first = None

\* C1, the part the code keeps: with the name check taken as the pattern
\* matches it (a name may carry one trailing newline), the reported error is
\* the first violated check in the claimed order.
C1_OrderAsMatched ==
    Called("validate_error_propagation_inputs") =>
        LET first == FirstViolated(MissingField(args), LengthMismatch(args),
                                   InvalidVariableNameAsMatched(args),
                                   NonPositiveUncertainty(args),
                                   UndefinedVariable(args),
                                   UnbalancedParentheses(args))
        IN /\ ret.error = first
           /\ ret.ok <=> first = None

PassesFirstFour(a) ==
    /\ ~MissingField(a)
    /\ ~LengthMismatch(a)
    /\ \A i \in 1..Len(a.variables) : PatternMatch(a.variables[i])
    /\ ~NonPositiveUncertainty(a)

\* C2: for inputs that pass the first four checks, the call fails with
\* UndefinedVariable exactly when the expression text has an identifier
\* token that is not a declared name, and it reports exactly the set of all
\* such tokens.
C2_UndefinedVariable ==
    (Called("validate_error_propagation_inputs") /\ PassesFirstFour(args)) =>
        LET undeclared == {t \in IdentifierTokens(args.function_str) :
                             \A i \in 1..Len(args.variables) : args.variables[i] # t}
        IN /\ (ret.error = "UndefinedVariable") <=> (undeclared # {})
           /\ ret.error = "UndefinedVariable" => (~ret.ok /\ ret.detail = undeclared)

\* x is declared and the expression uses two undeclared names, z among them:
\* both are reported
C2_Witness ==
    /\ Called("validate_error_propagation_inputs")
    /\ PassesFirstFour(args)
    /\ args.variables[1] = <<"x">>
    /\ ret.error = "UndefinedVariable"
    /\ Cardinality(ret.detail) = 2
    /\ <<"z">> \in ret.detail

\* C3: every (names, values, uncertainties) triple the validator accepts has
\* three sequences of equal length, strictly positive uncertainties and
\* pairwise distinct names.
C3_AcceptedIsWellFormed ==
    (Called("validate_error_propagation_inputs") /\ ret.ok) =>
        /\ Len(args.variables) = Len(args.values)
        /\ Len(args.values) = Len(args.errors)
        /\ \A i \in 1..Len(args.errors) : args.errors[i] > 0
        /\ \A i, j \in 1..Len(args.variables) :
              i # j => args.variables[i] # args.variables[j]

----------------------------------------------------------------------------
(* StatisticalAnalyzer.perform_qtest                                       *)
(* Sample values are floats holding small integers, so the differences are *)
(* exact; a ratio is kept as numerator and denominator, and a critical     *)
(* value in thousandths.                                                   *)

MaxShortLen == 7
MaxSampleLen == 11

SampleValues == {0, 1, 3}

\* every sample of up to MaxShortLen values; of the longer ones (up to
\* MaxSampleLen, past the end of the critical-value table) those made of any
\* two values, a run of one value, and any two values
QtestSamples ==
    SeqsUpTo(SampleValues, MaxShortLen)
    \cup {h \o [i \in 1..(n - 4) |-> f] \o t :
            <<h, f, t, n>> \in [1..2 -> SampleValues] \X SampleValues
                              \X [1..2 -> SampleValues]
                              \X ((MaxShortLen + 1)..MaxSampleLen)}

Abs(x) == IF x < 0 THEN -x ELSE x

Max2(a, b) == IF a >= b THEN a ELSE b

Min2(a, b) == IF a <= b THEN a ELSE b

RECURSIVE Insert(_, _)
Insert(x, s) ==
    IF s = <<>> THEN <<x>>
    ELSE IF x <= Head(s) THEN <<x>> \o s
         ELSE <<Head(s)>> \o Insert(x, Tail(s))

\* sorted(data): ascending
RECURSIVE Sorted(_)
Sorted(s) == IF s = <<>> THEN <<>> ELSE Insert(Head(s), Sorted(Tail(s)))

\* the keys of q_critical_values; dict.get gives None for any other key
QCriticalKeys == 3..10

\* q_critical_values, in thousandths
QCriticalValues(n) ==
    CASE n = 3 -> 970
      [] n = 4 -> 829
      [] n = 5 -> 710
      [] n = 6 -> 625
      [] n = 7 -> 568
      [] n = 8 -> 526
      [] n = 9 -> 493
      [] n = 10 -> 466

Raise(exc) == [raised |-> exc]

\* num/den > critical/1000, for den > 0
RatioExceeds(num, den, critical) == num * 1000 > critical * den

\* the statistic taken from the sample as entered, without sorting it
PerformQtestUnsorted(data) ==
    LET sorted_data == data
        n == Len(sorted_data)
    IN IF n < 2 THEN Raise("IndexError")
       ELSE LET den == Abs(sorted_data[n] - sorted_data[1])
                low == Abs(sorted_data[2] - sorted_data[1])
                high == Abs(sorted_data[n] - sorted_data[n - 1])
            IN IF den = 0 THEN Raise("ZeroDivisionError")
               ELSE IF Min2(n, 10) \notin QCriticalKeys THEN Raise("TypeError")
                    ELSE LET q_critical == QCriticalValues(Min2(n, 10)) IN
                         [raised |-> None,
                          q_statistic |-> [num |-> Max2(low, high), den |-> den],
                          q_critical |-> q_critical,
                          is_outlier |-> IF RatioExceeds(Max2(low, high), den, q_critical)
                                         THEN 1 ELSE 0]

perform_qtest(data) ==
    LET sorted_data == Sorted(data)
        n == Len(sorted_data)
    IN IF n < 2 THEN Raise("IndexError")
       ELSE LET den == Abs(sorted_data[n] - sorted_data[1])
                low == Abs(sorted_data[2] - sorted_data[1])
                high == Abs(sorted_data[n] - sorted_data[n - 1])
            IN IF den = 0 THEN Raise("ZeroDivisionError")
               ELSE IF Min2(n, 10) \notin QCriticalKeys THEN Raise("TypeError")
                    ELSE LET q_critical == QCriticalValues(Min2(n, 10)) IN
                         [raised |-> None,
                          q_statistic |-> [num |-> Max2(low, high), den |-> den],
                          q_critical |-> q_critical,
                          is_outlier |-> IF RatioExceeds(Max2(low, high), den, q_critical)
                                         THEN 1 ELSE 0]

PerformQtest ==
    /\ op = "idle"
    /\ UNCHANGED <<ui, pc>>
    /\ \E data \in QtestSamples :
        /\ op' = "perform_qtest"
        /\ args' = [data |-> data]
        /\ ret' = perform_qtest(data)

NextQtest == PerformQtest \/ Return

SpecQtest == Init /\ [][NextQtest]_vars

----------------------------------------------------------------------------
(* Claims about perform_qtest                                              *)

\* C7: perform_qtest never raises on a sample of size 3..10, a sample whose
\* minimum equals its maximum included.
C7_QtestNeverRaises ==
    (Called("perform_qtest") /\ Len(args.data) >= 3 /\ Len(args.data) <= 10)
        => ret.raised = None

\* the extremes of a sample and their neighbours, without sorting it
MinAt(s) == CHOOSE i \in 1..Len(s) : \A j \in 1..Len(s) : s[i] <= s[j]

MaxAt(s) == CHOOSE i \in 1..Len(s) : \A j \in 1..Len(s) : s[i] >= s[j]

SecondSmallest(s) ==
    LET rest == {j \in 1..Len(s) : j # MinAt(s)}
    IN s[CHOOSE i \in rest : \A j \in rest : s[i] <= s[j]]

SecondLargest(s) ==
    LET rest == {j \in 1..Len(s) : j # MaxAt(s)}
    IN s[CHOOSE i \in rest : \A j \in rest : s[i] >= s[j]]

Reverse(s) == [i \in 1..Len(s) |-> s[Len(s) + 1 - i]]

Rotate(s) == IF s = <<>> THEN s ELSE Tail(s) \o <<Head(s)>>

\* a/b = c/d for b, d > 0
SameRatio(a, b, c, d) == a * d = c * b

\* C8: for a sample of n >= 3 values with non-zero range, Q is the larger of
\* (x[1]-x[0])/(x[n-1]-x[0]) and (x[n-1]-x[n-2])/(x[n-1]-x[0]) of the sorted
\* sample, the critical value is the table's at min(n, 10) (0.466 for every
\* n > 10), the outlier flag is set iff Q > critical value, and the result
\* is the same for every order of the sample.
C8_QtestResult ==
    (Called("perform_qtest") /\ Len(args.data) >= 3
        /\ args.data[MinAt(args.data)] # args.data[MaxAt(args.data)])
    => LET s == args.data
           n == Len(s)
           lo == s[MinAt(s)]
           hi == s[MaxAt(s)]
           low == SecondSmallest(s) - lo
           high == hi - SecondLargest(s)
           q == Max2(low, high)
       IN /\ ret.raised = None
          /\ SameRatio(ret.q_statistic.num, ret.q_statistic.den, q, hi - lo)
          /\ ret.q_critical = QCriticalValues(IF n > 10 THEN 10 ELSE n)
          /\ n > 10 => ret.q_critical = 466
          /\ (ret.is_outlier = 1) <=> (q * 1000 > ret.q_critical * (hi - lo))
          /\ ret.is_outlier \in {0, 1}
          /\ perform_qtest(Reverse(s)) = ret
          /\ perform_qtest(Rotate(s)) = ret

\* an unsorted sample of eleven values, judged by the n = 10 critical value
\* and flagged as holding an outlier
C8_Witness ==
    /\ Called("perform_qtest")
    /\ Len(args.data) = 11
    /\ args.data[1] > args.data[2]
    /\ ret.raised = None
    /\ ret.q_critical = 466
    /\ ret.is_outlier = 1
    /\ ret.q_statistic.num < ret.q_statistic.den

----------------------------------------------------------------------------
(* StatisticalAnalyzer.calculate_confidence_interval                       *)
(* A float is a number of thousandths, or NaN.  numpy and scipy return NaN *)
(* (with a warning, not an exception) where a value is undefined.          *)

MaxCILen == 4

Scale == 1000

NaN == [nan |-> TRUE, v |-> 0]

Float(v) == [nan |-> FALSE, v |-> v]

\* IEEE comparisons: every comparison with NaN is false
FLess(a, b) == ~a.nan /\ ~b.nan /\ a.v < b.v

FLessEq(a, b) == ~a.nan /\ ~b.nan /\ a.v <= b.v

FEq(a, b) == ~a.nan /\ ~b.nan /\ a.v = b.v

FAdd(a, b) == IF a.nan \/ b.nan THEN NaN ELSE Float(a.v + b.v)

FSub(a, b) == IF a.nan \/ b.nan THEN NaN ELSE Float(a.v - b.v)

FMul(a, b) == IF a.nan \/ b.nan THEN NaN ELSE Float((a.v * b.v) \div Scale)

RECURSIVE ISqrtIter(_, _)
ISqrtIter(x, r) ==
    LET r2 == (r + x \div r) \div 2
    IN IF r2 >= r THEN r ELSE ISqrtIter(x, r2)

\* the integer square root
ISqrt(x) == IF x = 0 THEN 0 ELSE ISqrtIter(x, x)

RECURSIVE SumSeq(_)
SumSeq(s) == IF s = <<>> THEN 0 ELSE Head(s) + SumSeq(Tail(s))

\* np.mean(data): NaN for an empty sample
Mean(data) ==
    IF Len(data) = 0 THEN NaN ELSE Float((SumSeq(data) * Scale) \div Len(data))

\* np.std(data, ddof=1): the sum of squared deviations over n - 1; for n = 1
\* that is 0/0, which numpy evaluates to NaN
Std(data) ==
    LET n == Len(data)
        mean == Mean(data)
    IN IF n = 0 \/ n - 1 = 0 THEN NaN
       ELSE LET sq == SumSeq([i \in 1..n |-> (data[i] * Scale - mean.v)
                                              * (data[i] * Scale - mean.v)])
            IN Float(ISqrt(sq \div (n - 1)))

\* the confidence levels a caller asks for, in thousandths: 0.683 is the
\* default of calculate_confidence_interval
ConfidenceLevels == {683, 950}

\* stats.t.ppf((1 + confidence_level) / 2, df) in thousandths: the two-sided
\* Student-t critical value, positive for df >= 1 and NaN for df <= 0
TPpf(confidence_level, df) ==
    IF df <= 0 THEN NaN
    ELSE IF confidence_level = 683
    THEN Float(CASE df = 1 -> 1837 [] df = 2 -> 1322 [] df = 3 -> 1197
                 [] df = 4 -> 1142 [] df = 5 -> 1111 [] OTHER -> 1091)
    ELSE Float(CASE df = 1 -> 12706 [] df = 2 -> 4303 [] df = 3 -> 3182
                 [] df = 4 -> 2776 [] df = 5 -> 2571 [] OTHER -> 2447)

\* std / np.sqrt(n)
StdError(std, n) ==
    IF std.nan THEN NaN
    ELSE IF n = 0 THEN NaN
    ELSE Float((std.v * Scale) \div ISqrt(n * Scale * Scale))

\* the interval with the margin applied to the wrong sides
ConfidenceIntervalSwapped(data, confidence_level) ==
    LET n == Len(data)
        mean == Mean(data)
        std == Std(data)
        margin_of_error == FMul(TPpf(confidence_level, n - 1), StdError(std, n))
    IN [mean |-> mean, std |-> std,
        lower |-> FAdd(mean, margin_of_error),
        upper |-> FSub(mean, margin_of_error),
        confidence_level |-> confidence_level]

calculate_confidence_interval(data, confidence_level) ==
    LET n == Len(data)
        mean == Mean(data)
        std == Std(data)
        t_value == TPpf(confidence_level, n - 1)
        se == StdError(std, n)
        margin_of_error == FMul(t_value, se)
        lower == FSub(mean, margin_of_error)
        upper == FAdd(mean, margin_of_error)
    IN [mean |-> mean, std |-> std, lower |-> lower, upper |-> upper,
        confidence_level |-> confidence_level]

CalculateConfidenceInterval ==
    /\ op = "idle"
    /\ UNCHANGED <<ui, pc>>
    /\ \E data \in SeqsUpTo(SampleValues, MaxCILen),
          confidence_level \in ConfidenceLevels :
        /\ op' = "calculate_confidence_interval"
        /\ args' = [data |-> data, confidence_level |-> confidence_level]
        /\ ret' = calculate_confidence_interval(data, confidence_level)

NextCI == CalculateConfidenceInterval \/ Return

SpecCI == Init /\ [][NextCI]_vars

----------------------------------------------------------------------------
(* Claims about calculate_confidence_interval                              *)

\* t-critical * std / sqrt(n), from the definitions of its parts
Margin(data, confidence_level) ==
    FMul(TPpf(confidence_level, Len(data) - 1), StdError(Std(data), Len(data)))

\* C9: for every accepted sample (length >= 1) and every confidence level in
\* (0, 1): lower < mean < upper and mean - lower = upper - mean =
\* t-critical * std / sqrt(n), a single-element sample and a sample of equal
\* values included.
C9_StrictInterval ==
    (Called("calculate_confidence_interval") /\ Len(args.data) >= 1) =>
        /\ FLess(ret.lower, ret.mean)
        /\ FLess(ret.mean, ret.upper)
        /\ FEq(FSub(ret.mean, ret.lower), Margin(args.data, args.confidence_level))
        /\ FEq(FSub(ret.upper, ret.mean), Margin(args.data, args.confidence_level))

\* C9 as amended: for a sample of length >= 2 the margin t-critical * std /
\* sqrt(n) is a number >= 0, mean - lower = upper - mean = margin and so
\* lower <= mean <= upper, strictly only if std > 0 (when std = 0, as for a
\* sample of equal values, lower = mean = upper); for a single-element sample
\* std, lower and upper are NaN and neither inequality holds.
C9_IntervalAmended ==
    Called("calculate_confidence_interval") =>
        LET n == Len(args.data)
            margin == Margin(args.data, args.confidence_level)
        IN /\ n >= 2 =>
                /\ FLessEq(Float(0), margin)
                /\ FEq(FSub(ret.mean, ret.lower), margin)
                /\ FEq(FSub(ret.upper, ret.mean), margin)
                /\ FLessEq(ret.lower, ret.mean) /\ FLessEq(ret.mean, ret.upper)
                /\ (FLess(ret.lower, ret.mean) \/ FLess(ret.mean, ret.upper))
                      => FLess(Float(0), ret.std)
                /\ FEq(ret.std, Float(0))
                      => (FEq(ret.lower, ret.mean) /\ FEq(ret.upper, ret.mean))
                /\ (\A i \in 1..n : args.data[i] = args.data[1])
                      => FEq(ret.std, Float(0))
           /\ n = 1 =>
                /\ ~ret.mean.nan
                /\ ret.std.nan /\ ret.lower.nan /\ ret.upper.nan
                /\ ~FLess(ret.lower, ret.mean) /\ ~FLess(ret.mean, ret.upper)

\* a sample of two equal values: the interval collapses onto the mean
C9_Witness ==
    /\ Called("calculate_confidence_interval")
    /\ Len(args.data) = 2
    /\ args.data[1] = args.data[2]
    /\ FEq(ret.lower, ret.mean)
    /\ FEq(ret.upper, ret.mean)

----------------------------------------------------------------------------
(* StatisticalAnalyzer.calculate_error_propagation                         *)
(* Values are floats holding small integers and uncertainties are given in *)
(* tenths.  sympify, subs and diff are sympy's: an expression is held as   *)
(* the polynomial sympify builds from the text, a sequence of monomials    *)
(* c * x^p[x] * y^p[y].  A square root is kept exact, as sign*sqrt(num/den).*)

MaxPropVars == 2

Symbols == {"x", "y"}
PropValues == {0, 2, 3}
PropErrorTenths == {1, 2}

Mono(c, px, py) == [c |-> c, p |-> [s \in Symbols |-> IF s = "x" THEN px ELSE py]]

\* the expression texts a caller may pass
Expressions ==
    {"x", "2", "x*y", "x - y", "x**2", "x**2 + 2*x*y + y**2", "2x"}

\* sympify raises SympifyError (a ValueError) on a text it cannot parse
SympifyFails(function_str) == function_str = "2x"

\* sympify(function_str) for a text it can parse
Sympify(function_str) ==
    CASE function_str = "x" -> <<Mono(1, 1, 0)>>
      [] function_str = "2" -> <<Mono(2, 0, 0)>>
      [] function_str = "x*y" -> <<Mono(1, 1, 1)>>
      [] function_str = "x - y" -> <<Mono(1, 1, 0), Mono(-1, 0, 1)>>
      [] function_str = "x**2" -> <<Mono(1, 2, 0)>>
      [] function_str = "x**2 + 2*x*y + y**2" ->
            <<Mono(1, 2, 0), Mono(2, 1, 1), Mono(1, 0, 2)>>

RECURSIVE Pow(_, _)
Pow(b, e) == IF e = 0 THEN 1 ELSE b * Pow(b, e - 1)

RECURSIVE ProdOver(_, _, _)
ProdOver(S, env, powers) ==
    IF S = {} THEN 1
    ELSE LET s == CHOOSE t \in S : TRUE
         IN Pow(env[s], powers[s]) * ProdOver(S \ {s}, env, powers)

\* dict(zip(symbol_list, values)): zip stops at the shorter list and a later
\* value of a repeated name replaces an earlier one
ZipDict(symbol_list, values) ==
    LET n == Min2(Len(symbol_list), Len(values))
        keys == {symbol_list[i] : i \in 1..n}
    IN [k \in keys |->
          values[CHOOSE i \in 1..n :
                    /\ symbol_list[i] = k
                    /\ \A j \in (i + 1)..n : symbol_list[j] # k]]

\* the value of one monomial's bound part, and the powers of its free part
BoundValue(m, env) == m.c * ProdOver(DOMAIN env, env, m.p)

FreePart(m, env) == [s \in Symbols |-> IF s \in DOMAIN env THEN 0 ELSE m.p[s]]

NoFree == [s \in Symbols |-> 0]

\* the coefficient, after substitution, of the free part fp
CoeffOf(func, env, fp) ==
    SumSeq([i \in 1..Len(func) |->
              IF FreePart(func[i], env) = fp THEN BoundValue(func[i], env) ELSE 0])

\* func.subs(var_dict) is a number: every term that keeps a symbol cancels
SubsIsNumber(func, env) ==
    \A i \in 1..Len(func) :
        FreePart(func[i], env) # NoFree => CoeffOf(func, env, FreePart(func[i], env)) = 0

\* float(func.subs(var_dict)) when the substitution leaves a number
SubsValue(func, env) == CoeffOf(func, env, NoFree)

RECURSIVE DiffTerms(_, _)
DiffTerms(func, symbol) ==
    IF func = <<>> THEN <<>>
    ELSE LET m == Head(func)
             rest == DiffTerms(Tail(func), symbol)
         IN IF symbol \in Symbols /\ m.p[symbol] > 0
            THEN <<[c |-> m.c * m.p[symbol],
                    p |-> [m.p EXCEPT ![symbol] = @ - 1]]>> \o rest
            ELSE rest

\* diff(func, symbol)
Diff(func, symbol) == DiffTerms(func, symbol)

Sign(k) == IF k > 0 THEN 1 ELSE IF k < 0 THEN -1 ELSE 0

\* sign * sqrt(num / den), den > 0
Surd(sign, num, den) == [inf |-> FALSE, sign |-> sign, num |-> num, den |-> den]

\* float('inf')
Infinity == [inf |-> TRUE, sign |-> 1, num |-> 0, den |-> 1]

\* total ** 0.5, total a number of hundredths
SqrtHundredths(total) == Surd(Sign(total), total, 100)

\* (a / k) * 100 for an integer k # 0
DivTimes100(a, k) == Surd(a.sign * Sign(k), a.num * 10000, a.den * k * k)

\* the loop with a term of error * derivative^2, the uncertainty left unsquared
RECURSIVE PropLoopErrorUnsquared(_, _, _, _, _, _, _)
PropLoopErrorUnsquared(func, var_dict, symbol_list, errors, i, total, derivatives) ==
    IF i > Min2(Len(symbol_list), Len(errors))
    THEN [raised |-> None, total |-> total, derivatives |-> derivatives]
    ELSE LET partial_derivative == Diff(func, symbol_list[i]) IN
         IF ~SubsIsNumber(partial_derivative, var_dict)
         THEN [raised |-> "TypeError", total |-> total, derivatives |-> derivatives]
         ELSE LET derivative_value == SubsValue(partial_derivative, var_dict)
                  term == errors[i] * derivative_value * derivative_value
              IN PropLoopErrorUnsquared(func, var_dict, symbol_list, errors, i + 1,
                                        total + term,
                                        Append(derivatives,
                                               [variable |-> symbol_list[i],
                                                expression |-> partial_derivative]))

\* the for loop over zip(symbol_list, errors): the derivative entries, the
\* running total in hundredths, and whether float() raised on a derivative
\* that keeps a free symbol
RECURSIVE PropLoop(_, _, _, _, _, _, _)
PropLoop(func, var_dict, symbol_list, errors, i, total, derivatives) ==
    IF i > Min2(Len(symbol_list), Len(errors))
    THEN [raised |-> None, total |-> total, derivatives |-> derivatives]
    ELSE LET partial_derivative == Diff(func, symbol_list[i]) IN
         IF ~SubsIsNumber(partial_derivative, var_dict)
         THEN [raised |-> "TypeError", total |-> total, derivatives |-> derivatives]
         ELSE LET derivative_value == SubsValue(partial_derivative, var_dict)
                  term == (derivative_value * errors[i]) * (derivative_value * errors[i])
              IN PropLoop(func, var_dict, symbol_list, errors, i + 1, total + term,
                          Append(derivatives,
                                 [variable |-> symbol_list[i],
                                  expression |-> partial_derivative]))

\* the relative error with the test written as function_value > 0
RelativeErrorPositiveOnly(propagated_error, function_value) ==
    IF function_value > 0
    THEN DivTimes100(propagated_error, Abs(function_value))
    ELSE Infinity

\* (propagated_error / abs(function_value)) * 100 if function_value != 0
\* else float('inf')
RelativeError(propagated_error, function_value) ==
    IF function_value # 0
    THEN DivTimes100(propagated_error, Abs(function_value))
    ELSE Infinity

calculate_error_propagation(variables, values, errors, function_str) ==
    LET symbol_list == variables IN
    IF SympifyFails(function_str) THEN Raise("SympifyError")
    ELSE LET func == Sympify(function_str)
             var_dict == ZipDict(symbol_list, values)
         IN IF ~SubsIsNumber(func, var_dict) THEN Raise("TypeError")
            ELSE LET function_value == SubsValue(func, var_dict)
                     loop == PropLoop(func, var_dict, symbol_list, errors, 1, 0, <<>>)
                 IN IF loop.raised # None THEN Raise(loop.raised)
                    ELSE LET propagated_error == SqrtHundredths(loop.total)
                             relative_error == RelativeError(propagated_error,
                                                             function_value)
                         IN [raised |-> None,
                             function_value |-> function_value,
                             propagated_error |-> propagated_error,
                             relative_error |-> relative_error,
                             original_function |-> func,
                             derivatives |-> loop.derivatives]

NonEmptySeqsUpTo(S, n) == UNION {[1..k -> S] : k \in 1..n}

CalculateErrorPropagation ==
    /\ op = "idle"
    /\ UNCHANGED <<ui, pc>>
    /\ \E variables \in NonEmptySeqsUpTo(Symbols, MaxPropVars),
          values \in NonEmptySeqsUpTo(PropValues, MaxPropVars),
          errors \in NonEmptySeqsUpTo(PropErrorTenths, MaxPropVars),
          function_str \in Expressions :
        /\ op' = "calculate_error_propagation"
        /\ args' = [variables |-> variables, values |-> values,
                    errors |-> errors, function_str |-> function_str]
        /\ ret' = calculate_error_propagation(variables, values, errors,
                                              function_str)

NextProp == CalculateErrorPropagation \/ Return

SpecProp == Init /\ [][NextProp]_vars

----------------------------------------------------------------------------
(* Claims about calculate_error_propagation                                *)

RECURSIVE GCD(_, _)
GCD(a, b) == IF b = 0 THEN a ELSE GCD(b, a % b)

\* the fraction num/den in lowest terms, for num >= 0 and den > 0
Reduced(num, den) == <<num \div GCD(num, den), den \div GCD(num, den)>>

\* C10: the relative error is propagated uncertainty / |function value| *
\* 100 whenever the function value is non-zero and +infinity exactly when the
\* function value is zero (also when the propagated uncertainty is zero);
\* the call never fails with a division error.
C10_RelativeError ==
    Called("calculate_error_propagation") =>
        /\ ret.raised # "ZeroDivisionError"
        /\ ret.raised = None =>
            LET f == ret.function_value
                u == ret.propagated_error
                r == ret.relative_error
            IN /\ r.inf <=> f = 0
               /\ f # 0 =>
                    /\ r.sign = u.sign /\ r.sign >= 0
                    /\ Reduced(r.num, r.den) = Reduced(u.num * 100 * 100, u.den * f * f)
               /\ r.inf => r.sign = 1
        \* a well-formed call on a parsable expression returns a result
        /\ (~SympifyFails(args.function_str)
              /\ Len(args.variables) = Len(args.values)
              /\ Len(args.values) = Len(args.errors)
              /\ Range(args.variables) = Symbols)
            => ret.raised = None

\* x - y at x = y: function value zero, uncertainty not zero, relative error
\* +infinity
C10_Witness ==
    /\ Called("calculate_error_propagation")
    /\ args.function_str = "x - y"
    /\ ret.raised = None
    /\ ret.function_value = 0
    /\ ret.propagated_error.num > 0
    /\ ret.relative_error.inf

\* the value of a polynomial at x = vx, y = vy, term by term
EvalAt(func, vx, vy) ==
    SumSeq([i \in 1..Len(func) |->
              func[i].c * Pow(vx, func[i].p["x"]) * Pow(vy, func[i].p["y"])])

UsedSymbols(func) ==
    {s \in Symbols : \E i \in 1..Len(func) : func[i].c # 0 /\ func[i].p[s] > 0}

\* the value a binding gives a symbol (0 for a symbol it does not declare)
BoundTo(a, s) ==
    IF \E i \in 1..Len(a.variables) : a.variables[i] = s
    THEN a.values[CHOOSE i \in 1..Len(a.variables) : a.variables[i] = s]
    ELSE 0

\* twice the partial derivative of func by s at (vx, vy), as a central
\* difference: exact for a polynomial of degree at most 2 in s
TwicePartialAt(func, s, vx, vy) ==
    IF s = "x" THEN EvalAt(func, vx + 1, vy) - EvalAt(func, vx - 1, vy)
    ELSE EvalAt(func, vx, vy + 1) - EvalAt(func, vx, vy - 1)

\* a binding of distinct names with as many values and uncertainties, and a
\* parsable expression that uses declared names only
WellFormedCall(a) ==
    /\ Len(a.variables) = Len(a.values)
    /\ Len(a.values) = Len(a.errors)
    /\ \A i, j \in 1..Len(a.variables) : i # j => a.variables[i] # a.variables[j]
    /\ ~SympifyFails(a.function_str)
    /\ UsedSymbols(Sympify(a.function_str)) \subseteq Range(a.variables)

\* C11: for a polynomial over the declared variables the call returns the
\* expression's value at the given values, one (variable, derivative) entry
\* per declared variable in declaration order, and a propagated uncertainty
\* whose square is the sum of (partial derivative at the values * that
\* variable's uncertainty)^2; for [x,y], [2,3], [0.1,0.2] and
\* x**2 + 2*x*y + y**2: function value 25, both partials 10, square 5.
C11_PropagationResult ==
    (Called("calculate_error_propagation") /\ WellFormedCall(args)) =>
        LET func == Sympify(args.function_str)
            vx == BoundTo(args, "x")
            vy == BoundTo(args, "y")
            n == Len(args.variables)
            twice == [i \in 1..n |-> TwicePartialAt(func, args.variables[i], vx, vy)]
        IN /\ ret.raised = None
           /\ ret.function_value = EvalAt(func, vx, vy)
           /\ Len(ret.derivatives) = n
           /\ \A i \in 1..n :
                /\ ret.derivatives[i].variable = args.variables[i]
                /\ 2 * EvalAt(ret.derivatives[i].expression, vx, vy) = twice[i]
           \* uncertainties are in tenths: 4 * 100 * square = sum (2*partial*e)^2
           /\ ~ret.propagated_error.inf /\ ret.propagated_error.sign >= 0
           /\ 4 * 100 * ret.propagated_error.num
                = ret.propagated_error.den
                    * SumSeq([i \in 1..n |-> (twice[i] * args.errors[i])
                                               * (twice[i] * args.errors[i])])
           /\ (args.function_str = "x**2 + 2*x*y + y**2"
                 /\ args.variables = <<"x", "y">> /\ args.values = <<2, 3>>
                 /\ args.errors = <<1, 2>>)
              => /\ ret.function_value = 25
                 /\ EvalAt(ret.derivatives[1].expression, 2, 3) = 10
                 /\ EvalAt(ret.derivatives[2].expression, 2, 3) = 10
                 /\ ret.propagated_error.num = 5 * ret.propagated_error.den

\* the spec's example was computed: x**2 + 2*x*y + y**2 at x = 2, y = 3
C11_Witness ==
    /\ Called("calculate_error_propagation")
    /\ args.function_str = "x**2 + 2*x*y + y**2"
    /\ args.variables = <<"x", "y">> /\ args.values = <<2, 3>>
    /\ args.errors = <<1, 2>>
    /\ ret.raised = None
    /\ ret.function_value = 25
    /\ Len(ret.derivatives) = 2

----------------------------------------------------------------------------
(* StatisticalAnalyzer.perform_ttest                                       *)
(* scipy's ttest_ind and ttest_rel return NaN, not an exception, where the *)
(* statistic is undefined; the statistic is kept by its sign and the       *)
(* p-value as "nan" or "p", a probability.                                 *)

MaxGroupLen == 3

TtestModes == {"independent", "paired", "other"}

RaiseValueError(kind) == [raised |-> "ValueError", error |-> kind]

SignClass(k) == IF k > 0 THEN "pos" ELSE IF k < 0 THEN "neg" ELSE "zero"

AllEqual(s) == \A i \in 1..Len(s) : s[i] = s[1]

\* stats.ttest_ind(group1_array, group2_array), equal variances assumed:
\* undefined for an empty group, for n1 + n2 - 2 = 0 and for 0/0
TtestInd(group1, group2) ==
    LET n1 == Len(group1)
        n2 == Len(group2)
        diff == SumSeq(group1) * n2 - SumSeq(group2) * n1
    IN IF n1 = 0 \/ n2 = 0 \/ n1 + n2 - 2 = 0
          \/ (AllEqual(group1) /\ AllEqual(group2) /\ diff = 0)
       THEN [statistic |-> "nan", pvalue |-> "nan"]
       ELSE [statistic |-> SignClass(diff), pvalue |-> "p"]

\* stats.ttest_rel(group1_array, group2_array) for groups of equal length:
\* the one-sample test of the differences
TtestRel(group1, group2) ==
    LET n == Len(group1)
        d == [i \in 1..n |-> group1[i] - group2[i]]
    IN IF n <= 1 \/ (AllEqual(d) /\ SumSeq(d) = 0)
       THEN [statistic |-> "nan", pvalue |-> "nan"]
       ELSE [statistic |-> SignClass(SumSeq(d)), pvalue |-> "p"]

\* a length test applied in every mode
LengthsRejectedAnyMode(group1, group2, test_type) ==
    Len(group1) # Len(group2)

\* the test of line 183, reached in paired mode only
LengthsRejected(group1, group2, test_type) ==
    test_type = "paired" /\ Len(group1) # Len(group2)

\* degrees of freedom of n1 + n2 - 1 and n
TtestDofOffByOne(group1, group2, test_type) ==
    IF test_type = "independent"
    THEN Len(group1) + Len(group2) - 1
    ELSE Len(group1)

\* dof, for the two modes that compute one
TtestDof(group1, group2, test_type) ==
    IF test_type = "independent"
    THEN Len(group1) + Len(group2) - 2
    ELSE Len(group1) - 1

perform_ttest(group1, group2, test_type) ==
    LET mean1 == Mean(group1)
        mean2 == Mean(group2)
    IN IF LengthsRejected(group1, group2, test_type)
       THEN RaiseValueError("SizeMismatch")
       ELSE IF test_type \notin {"independent", "paired"}
       THEN RaiseValueError("InvalidTestType")
       ELSE LET t == IF test_type = "independent"
                     THEN TtestInd(group1, group2)
                     ELSE TtestRel(group1, group2)
            IN [raised |-> None,
                statistic |-> t.statistic,
                pvalue |-> t.pvalue,
                dof |-> TtestDof(group1, group2, test_type),
                mean1 |-> mean1,
                mean2 |-> mean2,
                test_type |-> test_type]

PerformTtest ==
    /\ op = "idle"
    /\ UNCHANGED <<ui, pc>>
    /\ \E group1 \in SeqsUpTo(SampleValues, MaxGroupLen),
          group2 \in SeqsUpTo(SampleValues, MaxGroupLen),
          test_type \in TtestModes :
        /\ op' = "perform_ttest"
        /\ args' = [group1 |-> group1, group2 |-> group2, test_type |-> test_type]
        /\ ret' = perform_ttest(group1, group2, test_type)

NextTtest == PerformTtest \/ Return

SpecTtest == Init /\ [][NextTtest]_vars

----------------------------------------------------------------------------
(* Claims about perform_ttest                                              *)

IsResultRecord(r) == r.raised = None /\ "dof" \in DOMAIN r

\* C12: in paired mode every pair of samples of different lengths fails with
\* SizeMismatch and yields no result record; in independent mode the lengths
\* are never compared, so no pair of samples is rejected for its lengths.
C12_SizeMismatch ==
    Called("perform_ttest") =>
        /\ (args.test_type = "paired" /\ Len(args.group1) # Len(args.group2))
            => /\ ret.raised = "ValueError"
               /\ ret.error = "SizeMismatch"
               /\ "dof" \notin DOMAIN ret
        /\ args.test_type = "independent" => IsResultRecord(ret)
        /\ (args.test_type = "paired" /\ Len(args.group1) = Len(args.group2))
            => IsResultRecord(ret)

\* a paired test of a sample of three values against one of two was refused
C12_Witness ==
    /\ Called("perform_ttest")
    /\ args.test_type = "paired"
    /\ Len(args.group1) = 3 /\ Len(args.group2) = 2
    /\ ret.raised = "ValueError" /\ ret.error = "SizeMismatch"

\* C13: degrees of freedom are n1 + n2 - 2 in independent mode and n - 1 in
\* paired mode, the result echoes the requested mode, and every other mode
\* fails with InvalidTestType whatever the two samples are.
C13_DofAndMode ==
    Called("perform_ttest") =>
        /\ (args.test_type = "independent" /\ ret.raised = None)
            => ret.dof = Len(args.group1) + Len(args.group2) - 2
        /\ (args.test_type = "paired" /\ ret.raised = None)
            => (ret.dof = Len(args.group1) - 1 /\ ret.dof = Len(args.group2) - 1)
        /\ ret.raised = None => ret.test_type = args.test_type
        /\ args.test_type \notin {"independent", "paired"}
            => (ret.raised = "ValueError" /\ ret.error = "InvalidTestType")
        /\ (ret.raised = "ValueError" /\ ret.error = "InvalidTestType")
            => args.test_type \notin {"independent", "paired"}

\* an independent test of three values against two: 3 degrees of freedom
C13_Witness ==
    /\ Called("perform_ttest")
    /\ args.test_type = "independent"
    /\ Len(args.group1) = 3 /\ Len(args.group2) = 2
    /\ ret.raised = None
    /\ ret.dof = 3
    /\ ret.test_type = "independent"

----------------------------------------------------------------------------
(* UIManager.handle_test_click, show_error, show_result, clear_messages    *)
(* and StatisticalAnalyzer.format_results.  A message is named by its kind *)
(* and carries what the code interpolates into it; a formatted number is   *)
(* kept as the value and the number of decimals it is printed with.        *)

MaxUiTokens == 3
MaxUiFields == 2

Message(kind, detail) == [kind |-> kind, detail |-> detail]

RECURSIVE Join(_, _)
Join(tokens, sep) ==
    IF tokens = <<>> THEN <<>>
    ELSE IF Len(tokens) = 1 THEN Head(tokens)
    ELSE Head(tokens) \o <<sep>> \o Join(Tail(tokens), sep)

\* what the user may have typed into the data field: whole numbers and
\* a word, separated by blanks; nothing; a blank
UiDataTokens == {<<"1">>, <<"2">>, <<"a">>}
UiDataTexts ==
    {Join(ts, " ") : ts \in SeqsUpTo(UiDataTokens, MaxUiTokens)} \cup {<<" ">>}

\* the comma-separated fields of the error propagation tab
UiNames == {<<"x">>, <<" ", "y">>, <<>>}
UiValues == {<<"2">>, <<"1">>, <<"a">>}
UiErrors == {<<".", "1">>, <<"-", ".", "1">>}
UiNameTexts == {Join(ts, ",") : ts \in NonEmptySeqsUpTo(UiNames, MaxUiFields)}
UiValueTexts == {Join(ts, ",") : ts \in NonEmptySeqsUpTo(UiValues, MaxUiFields)}
UiErrorTexts == {Join(ts, ",") : ts \in NonEmptySeqsUpTo(UiErrors, MaxUiFields)}
UiFunctionTexts ==
    {<<>>, <<"x">>, <<"2">>, <<" ", "x", "*", "y">>, <<"2", "x">>,
     <<"(", "x">>, <<"z">>}

\* the buttons of the form (lines 86, 91 and 96)
ClickKinds == {"qtest", "confidence_interval", "error_propagation"}

RECURSIVE SplitOnFrom(_, _, _, _, _)
SplitOnFrom(text, sep, i, cur, acc) ==
    IF i > Len(text) THEN Append(acc, cur)
    ELSE IF text[i] = sep
         THEN SplitOnFrom(text, sep, i + 1, <<>>, Append(acc, cur))
         ELSE SplitOnFrom(text, sep, i + 1, Append(cur, text[i]), acc)

\* text.split(sep): one more piece than there are separators
SplitOn(text, sep) == SplitOnFrom(text, sep, 1, <<>>, <<>>)

RECURSIVE LStrip(_)
LStrip(text) ==
    IF text # <<>> /\ Head(text) \in Whitespace THEN LStrip(Tail(text)) ELSE text

RECURSIVE RStrip(_)
RStrip(text) ==
    IF text # <<>> /\ text[Len(text)] \in Whitespace
    THEN RStrip(SubSeq(text, 1, Len(text) - 1))
    ELSE text

\* text.strip()
Strip(text) == RStrip(LStrip(text))

\* a parsed float without decimals, as the analyzer model takes it
Whole(f) == f.m

\* a parsed float with at most one decimal, in tenths
Tenths(f) == f.m * Pow(10, 1 - f.e)

\* the expression and the names as the analyzer model names them
ExprString(function_str) ==
    CASE function_str = <<"x">> -> "x"
      [] function_str = <<"2">> -> "2"
      [] function_str = <<"x", "*", "y">> -> "x*y"
      [] function_str = <<"2", "x">> -> "2x"

NameString(var) ==
    CASE var = <<"x">> -> "x"
      [] var = <<"y">> -> "y"

\* f"{value:.<decimals>f}"
Fmt(decimals, value) == [decimals |-> decimals, value |-> value]

\* format_results, as message.split(": ") cuts it; the t-test branch is not
\* reached from the form
format_results(results, test_type) ==
    IF test_type = "qtest"
    THEN [kind |-> "qtest",
          parts |-> <<[q_statistic |-> Fmt(4, results.q_statistic),
                       q_critical |-> Fmt(4, results.q_critical)],
                      [verdict |-> IF results.is_outlier = 1
                                   THEN "outlier" ELSE "no outlier"]>>]
    ELSE IF test_type = "error_propagation"
    THEN [kind |-> "error_propagation",
          parts |-> <<[title |-> "original function"],
                      [original_function |-> results.original_function,
                       derivatives |-> results.derivatives,
                       function_value |-> Fmt(6, results.function_value),
                       propagated_error |-> Fmt(6, results.propagated_error),
                       relative_error |-> Fmt(2, results.relative_error)]>>]
    ELSE [kind |-> "confidence_interval",
          parts |-> <<[mean |-> Fmt(4, results.mean),
                       std |-> Fmt(4, results.std),
                       confidence_percent |-> Fmt(1, results.confidence_level \div 10),
                       lower |-> Fmt(4, results.lower),
                       upper |-> Fmt(4, results.upper)]>>]

\* a clear that leaves the results area as it was
ClearMessagesKeepsResultsArea(d) ==
    [d EXCEPT !.error_text = EmptyText, !.error_visible = FALSE,
              !.result_spans = NoSpans, !.result_value = EmptyText]

clear_messages(d) ==
    [d EXCEPT !.error_text = EmptyText, !.error_visible = FALSE,
              !.result_spans = NoSpans, !.result_value = EmptyText,
              !.results_visible = FALSE]

show_error(d, message) ==
    [d EXCEPT !.error_text = message, !.error_visible = TRUE]

show_result(d, message) ==
    IF Len(message.parts) > 1
    THEN [d EXCEPT !.results_visible = TRUE,
                   !.result_spans = <<[text |-> message.parts[1], colon |-> TRUE],
                                      [text |-> message.parts[2], colon |-> FALSE]>>]
    ELSE [d EXCEPT !.results_visible = TRUE, !.result_value = message]

\* [x.strip() for x in text.split(",")]
FieldList(text) ==
    LET pieces == SplitOn(text, ",")
    IN [i \in 1..Len(pieces) |-> Strip(pieces[i])]

\* SympifyError derives from ValueError
ValueErrors == {"ValueError", "SympifyError"}

\* one handler for every exception
ExceptGenericOnly(exc) == Message("ComputationError", exc)

\* except ValueError as ve ... except Exception as e (lines 393-396)
Except(exc) ==
    IF exc \in ValueErrors
    THEN Message("InputValueError", exc)
    ELSE Message("ComputationError", exc)

Raised(results) == IF "raised" \in DOMAIN results THEN results.raised ELSE None

\* the click ends in show_error
ShowsError(calls, message, raised) ==
    [calls |-> Append(calls, "show_error"), shown |-> "error",
     message |-> message, raised |-> raised]

\* lines 390-396: the results are formatted and shown, or the exception the
\* analyzer raised is caught
FormatAndShow(calls, results, test_type) ==
    IF Raised(results) # None
    THEN ShowsError(calls, Except(Raised(results)), Raised(results))
    ELSE [calls |-> calls \o <<"format_results", "show_result">>,
          shown |-> "result",
          message |-> format_results(results, test_type),
          raised |-> None]

\* the branch with the call of check_data_requirements left out
BasicBranchWithoutRequirements(test_type, data_input) ==
    LET v == validate_input(data_input) IN
    IF ~v.ok
    THEN ShowsError(<<"validate_input">>, Message(v.error, None), None)
    ELSE LET numbers == [i \in 1..Len(v.numbers) |-> Whole(v.numbers[i])]
             calls == <<"validate_input">>
         IN IF test_type = "qtest"
            THEN FormatAndShow(Append(calls, "perform_qtest"),
                               perform_qtest(numbers), test_type)
            ELSE FormatAndShow(Append(calls, "calculate_confidence_interval"),
                               calculate_confidence_interval(numbers, 683),
                               test_type)

\* lines 366-387; the interval is asked for at the default level of 0.683
BasicBranch(test_type, data_input) ==
    LET v == validate_input(data_input) IN
    IF ~v.ok
    THEN ShowsError(<<"validate_input">>, Message(v.error, None), None)
    ELSE LET numbers == [i \in 1..Len(v.numbers) |-> Whole(v.numbers[i])]
             r == IF test_type # "confidence_interval"
                  THEN check_data_requirements(numbers, test_type)
                  ELSE IF Len(numbers) < 1
                       THEN [ok |-> FALSE, error |-> "InsufficientSampleSize"]
                       ELSE [ok |-> TRUE, error |-> None]
             calls == IF test_type # "confidence_interval"
                      THEN <<"validate_input", "check_data_requirements">>
                      ELSE <<"validate_input", "length guard">>
         IN IF ~r.ok
            THEN ShowsError(calls, Message(r.error, None), None)
            ELSE IF test_type = "qtest"
            THEN FormatAndShow(Append(calls, "perform_qtest"),
                               perform_qtest(numbers), test_type)
            ELSE FormatAndShow(Append(calls, "calculate_confidence_interval"),
                               calculate_confidence_interval(numbers, 683),
                               test_type)

\* lines 345-365
ErrorPropagationBranch(fields) ==
    LET variables == FieldList(fields.variable_input)
        raw_values == FieldList(fields.value_input)
        raw_errors == FieldList(fields.error_input)
        function_str == Strip(fields.function_input)
    IN IF \/ \E i \in 1..Len(raw_values) : ~FloatOk(raw_values[i])
          \/ \E i \in 1..Len(raw_errors) : ~FloatOk(raw_errors[i])
       THEN ShowsError(<<>>, Message("InvalidNumber", None), None)
       ELSE LET values == [i \in 1..Len(raw_values) |-> Whole(FloatVal(raw_values[i]))]
                errors == [i \in 1..Len(raw_errors) |-> Tenths(FloatVal(raw_errors[i]))]
                v == validate_error_propagation_inputs(variables, values, errors,
                                                       function_str)
            IN IF ~v.ok
               THEN ShowsError(<<"validate_error_propagation_inputs">>,
                               Message(v.error, v.detail), None)
               ELSE FormatAndShow(
                        <<"validate_error_propagation_inputs",
                          "calculate_error_propagation">>,
                        calculate_error_propagation(
                            [i \in 1..Len(variables) |-> NameString(variables[i])],
                            values, errors, ExprString(function_str)),
                        "error_propagation")

\* what the handler does after clear_messages: the routines it calls, in
\* order, what it shows and the exception it caught, if any
handle_test_click(test_type, fields) ==
    IF test_type = "error_propagation"
    THEN ErrorPropagationBranch(fields)
    ELSE BasicBranch(test_type, fields.data_input)

\* the fields the handler reads for a kind of click
FieldsOf(test_type) ==
    IF test_type = "error_propagation"
    THEN [variable_input : UiNameTexts, value_input : UiValueTexts,
          error_input : UiErrorTexts, function_input : UiFunctionTexts]
    ELSE [data_input : UiDataTexts]

\* a button is clicked: the handler starts and clears the display
HandleTestClickClear ==
    /\ op = "idle"
    /\ pc = "idle"
    /\ \E test_type \in ClickKinds :
        /\ op' = "handle_test_click"
        /\ args' = [test_type |-> test_type]
    /\ ret' = NoArgs
    /\ ui' = clear_messages(ui)
    /\ pc' = "cleared"

\* the handler reads the fields, runs to its end and shows the outcome
HandleTestClickRun ==
    /\ op = "handle_test_click"
    /\ pc = "cleared"
    /\ \E fields \in FieldsOf(args.test_type) :
        LET out == handle_test_click(args.test_type, fields) IN
        /\ args' = [test_type |-> args.test_type, fields |-> fields]
        /\ ret' = out
        /\ ui' = IF out.shown = "error"
                 THEN show_error(ui, out.message)
                 ELSE show_result(ui, out.message)
    /\ pc' = "done"
    /\ UNCHANGED op

NextUI == HandleTestClickClear \/ HandleTestClickRun \/ Return

SpecUI == Init /\ [][NextUI]_vars

----------------------------------------------------------------------------
(* Claims about handle_test_click                                          *)

\* a click has been handled to its end
Completed == op = "handle_test_click" /\ pc = "done"

AnalyzerRoutines ==
    {"perform_qtest", "calculate_confidence_interval", "calculate_error_propagation"}

ValidatorRoutines ==
    {"validate_input", "check_data_requirements", "length guard",
     "validate_error_propagation_inputs"}

\* every value and every uncertainty of the click is a number
FloatsParse(a) ==
    /\ \A t \in Range(FieldList(a.fields.value_input)) : FloatOk(t)
    /\ \A t \in Range(FieldList(a.fields.error_input)) : FloatOk(t)

\* the numbers of the data field, when it holds numbers only
ClickNumbers(a) ==
    LET tokens == Split(a.fields.data_input)
    IN [i \in 1..Len(tokens) |-> Whole(FloatVal(tokens[i]))]

\* what the Validator says of the inputs of the click
ValidatorVerdict(a) ==
    IF a.test_type = "error_propagation"
    THEN LET raw_values == FieldList(a.fields.value_input)
             raw_errors == FieldList(a.fields.error_input)
             v == validate_error_propagation_inputs(
                      FieldList(a.fields.variable_input),
                      [i \in 1..Len(raw_values) |-> Whole(FloatVal(raw_values[i]))],
                      [i \in 1..Len(raw_errors) |-> Tenths(FloatVal(raw_errors[i]))],
                      Strip(a.fields.function_input))
         IN [ok |-> v.ok, message |-> Message(v.error, v.detail)]
    ELSE LET v == validate_input(a.fields.data_input) IN
         IF ~v.ok THEN [ok |-> FALSE, message |-> Message(v.error, None)]
         ELSE IF a.test_type = "confidence_interval"
         THEN IF Len(ClickNumbers(a)) < 1
              THEN [ok |-> FALSE, message |-> Message("InsufficientSampleSize", None)]
              ELSE [ok |-> TRUE, message |-> Message(None, None)]
         ELSE LET r == check_data_requirements(ClickNumbers(a), a.test_type)
              IN [ok |-> r.ok, message |-> Message(r.error, None)]

ExactlyOneShown(d) ==
    /\ d.error_visible # d.results_visible
    /\ d.error_visible =>
        /\ d.error_text.kind # "empty"
        /\ d.result_value.kind = "empty"
        /\ d.result_spans = NoSpans
    /\ d.results_visible =>
        /\ d.error_text.kind = "empty"
        /\ (d.result_value.kind # "empty" \/ d.result_spans # NoSpans)

NothingShown(d) ==
    /\ ~d.error_visible /\ ~d.results_visible
    /\ d.error_text.kind = "empty"
    /\ d.result_value.kind = "empty"
    /\ d.result_spans = NoSpans

----------------------------------------------------------------------------
(* The whole layer: a caller may invoke any of the operations.             *)

Next ==
    \/ ValidateInput
    \/ CheckDataRequirements
    \/ ValidateErrorPropagationInputs
    \/ PerformQtest
    \/ CalculateConfidenceInterval
    \/ CalculateErrorPropagation
    \/ PerformTtest
    \/ HandleTestClickClear
    \/ HandleTestClickRun
    \/ Return

Spec == Init /\ [][Next]_vars

====
